---- MODULE Spec2Model ----
(***************************************************************************)
(* The data model of app/models.py: twelve SQLModel tables, the create and *)
(* update shapes that validate inbound payloads, and the store that holds  *)
(* the rows and enforces the declared column constraints.                  *)
(*                                                                         *)
(* A payload and a row are records from field names to values.  A field    *)
(* whose value is None (SQL NULL) is a field that is not in the record's   *)
(* DOMAIN.  A str is a sequence of one-character strings, a datetime is a  *)
(* natural number, a Decimal is [coef, scale] standing for                 *)
(* coef * 10^(-scale).                                                     *)
(***************************************************************************)
EXTENDS FiniteSets, Integers, Sequences, TLC

VARIABLES db, clock, last

vars == <<db, clock, last>>

-----------------------------------------------------------------------------
(* Enums, models.py 9-40: member name -> value.                            *)

UserRole ==
  [ADMIN |-> "admin", MANAGER |-> "manager", VIEWER |-> "viewer",
   EXTERNAL |-> "external", TEAM_MEMBER |-> "team_member"]

ToolCategory ==
  [APP |-> "app", PLATFORM |-> "platform", CONTROL_BOARD |-> "control_board"]

OnboardingStatus ==
  [PENDING |-> "pending", IN_PROGRESS |-> "in_progress",
   COMPLETED |-> "completed"]

InductionStatus ==
  [NOT_STARTED |-> "not_started", IN_PROGRESS |-> "in_progress",
   COMPLETED |-> "completed"]

ContentType ==
  [TEXT |-> "text", IMAGE |-> "image", VIDEO |-> "video", FILE |-> "file",
   LINK |-> "link"]

EnumValues(enum) == {enum[n] : n \in DOMAIN enum}

-----------------------------------------------------------------------------
(* Values of the declared defaults.                                        *)

EmptyMap == << >>
EmptyList == << >>
EmptyStr == << >>
DecimalZero == [coef |-> 0, scale |-> 0]

NoFields == [f \in {} |-> 0]

-----------------------------------------------------------------------------
(* The email pattern of User.email, models.py 48:                          *)
(*   ^[a-zA-Z0-9_.+-]+@[a-zA-Z0-9-]+\.[a-zA-Z0-9-.]+$                       *)

Lower == {"a", "b", "c", "d", "e", "f", "g", "h", "i", "j", "k", "l", "m",
          "n", "o", "p", "q", "r", "s", "t", "u", "v", "w", "x", "y", "z"}
Upper == {"A", "B", "C", "D", "E", "F", "G", "H", "I", "J", "K", "L", "M",
          "N", "O", "P", "Q", "R", "S", "T", "U", "V", "W", "X", "Y", "Z"}
Digit == {"0", "1", "2", "3", "4", "5", "6", "7", "8", "9"}

LocalChars == Lower \cup Upper \cup Digit \cup {"_", ".", "+", "-"}
DomainChars == Lower \cup Upper \cup Digit \cup {"-"}
SuffixChars == Lower \cup Upper \cup Digit \cup {"-", "."}

AllIn(s, lo, hi, chars) == \A i \in lo..hi : s[i] \in chars

\* s matches the pattern: a non-empty local part, "@", a non-empty domain
\* label, ".", a non-empty suffix.
EmailPatternMatches(s) ==
  \E at \in 1..Len(s) : \E dot \in (at + 1)..Len(s) :
     /\ s[at] = "@"
     /\ s[dot] = "."
     /\ at > 1
     /\ AllIn(s, 1, at - 1, LocalChars)
     /\ dot > at + 1
     /\ AllIn(s, at + 1, dot - 1, DomainChars)
     /\ dot < Len(s)
     /\ AllIn(s, dot + 1, Len(s), SuffixChars)

-----------------------------------------------------------------------------
(* Decimal constraints of InductionProgress.completion_percentage,         *)
(* models.py 253: max_digits=5, decimal_places=2.                          *)

RECURSIVE NumDigits(_)
NumDigits(n) == IF n < 10 THEN 1 ELSE 1 + NumDigits(n \div 10)

RECURSIVE Pow10(_)
Pow10(k) == IF k = 0 THEN 1 ELSE 10 * Pow10(k - 1)

Abs(n) == IF n < 0 THEN -n ELSE n

\* The digit counts the validator takes from Decimal.as_tuple(): the digit
\* tuple of |coef| and the exponent -scale.
DecimalDigits(d) ==
  IF d.scale > NumDigits(Abs(d.coef)) THEN d.scale ELSE NumDigits(Abs(d.coef))

DecimalValid(d, max_digits, decimal_places) ==
  /\ DecimalDigits(d) <= max_digits
  /\ d.scale <= decimal_places
  /\ DecimalDigits(d) - d.scale <= max_digits - decimal_places

\* Half-up rounding of n / m for m > 0, away from zero for negative n.
RoundDiv(n, m) ==
  IF n >= 0 THEN (2 * n + m) \div (2 * m) ELSE -((2 * (-n) + m) \div (2 * m))

\* The value a NUMERIC(_, places) column holds for d.
Quantize(d, places) ==
  IF d.scale <= places
  THEN [coef |-> d.coef * Pow10(places - d.scale), scale |-> places]
  ELSE [coef |-> RoundDiv(d.coef, Pow10(d.scale - places)), scale |-> places]

-----------------------------------------------------------------------------
(* The tables, models.py 44-274.  For each: the columns that are NOT NULL  *)
(* (a field that is not Optional and is no sa_column), the unique columns, *)
(* the foreign keys (column -> referenced table), the field defaults, the  *)
(* fields whose default_factory is datetime.utcnow, and the constraints    *)
(* the fields declare (max_length, enum type, regex, decimal digits).      *)

User ==
  [name |-> "users",
   notnull |-> {"email", "first_name", "last_name", "is_active", "created_at"},
   unique |-> {"email"},
   fk |-> NoFields,
   defaults |-> [is_active |-> TRUE],
   utcnow |-> {"created_at"},
   maxlen |-> [email |-> 255, first_name |-> 100, last_name |-> 100],
   enum |-> NoFields,
   regex |-> {"email"},
   decimal |-> NoFields]

Project ==
  [name |-> "projects",
   notnull |-> {"name", "description", "code", "is_active", "created_by_id",
                "created_at"},
   unique |-> {"code"},
   fk |-> [created_by_id |-> "users"],
   defaults |-> [description |-> EmptyStr, is_active |-> TRUE,
                 settings |-> EmptyMap],
   utcnow |-> {"created_at"},
   maxlen |-> [name |-> 200, description |-> 2000, code |-> 20],
   enum |-> NoFields,
   regex |-> {},
   decimal |-> NoFields]

ProjectMembership ==
  [name |-> "project_memberships",
   notnull |-> {"user_id", "project_id", "role", "joined_at", "is_active"},
   unique |-> {},
   fk |-> [user_id |-> "users", project_id |-> "projects"],
   defaults |-> [role |-> UserRole.TEAM_MEMBER, is_active |-> TRUE],
   utcnow |-> {"joined_at"},
   maxlen |-> NoFields,
   enum |-> [role |-> UserRole],
   regex |-> {},
   decimal |-> NoFields]

Tool ==
  [name |-> "tools",
   notnull |-> {"name", "description", "category", "is_embeddable",
                "is_active", "created_at"},
   unique |-> {},
   fk |-> NoFields,
   defaults |-> [description |-> EmptyStr, is_embeddable |-> FALSE,
                 embed_config |-> EmptyMap, is_active |-> TRUE],
   utcnow |-> {"created_at"},
   maxlen |-> [name |-> 200, description |-> 1000, icon_url |-> 500,
               external_url |-> 500],
   enum |-> [category |-> ToolCategory],
   regex |-> {},
   decimal |-> NoFields]

ProjectTool ==
  [name |-> "project_tools",
   notnull |-> {"project_id", "tool_id", "is_enabled", "created_at"},
   unique |-> {},
   fk |-> [project_id |-> "projects", tool_id |-> "tools"],
   defaults |-> [is_enabled |-> TRUE, configuration |-> EmptyMap,
                 required_roles |-> EmptyList],
   utcnow |-> {"created_at"},
   maxlen |-> NoFields,
   enum |-> NoFields,
   regex |-> {},
   decimal |-> NoFields]

NewStarterRequest ==
  [name |-> "new_starter_requests",
   notnull |-> {"project_id", "manager_id", "starter_email",
                "starter_first_name", "starter_last_name", "start_date",
                "role", "status", "created_at"},
   unique |-> {},
   fk |-> [project_id |-> "projects", manager_id |-> "users"],
   defaults |-> [role |-> UserRole.TEAM_MEMBER,
                 status |-> OnboardingStatus.PENDING],
   utcnow |-> {"created_at"},
   maxlen |-> [starter_email |-> 255, starter_first_name |-> 100,
               starter_last_name |-> 100, department |-> 100,
               position |-> 100, line_manager |-> 200, notes |-> 1000],
   enum |-> [role |-> UserRole, status |-> OnboardingStatus],
   regex |-> {},
   decimal |-> NoFields]

OnboardingDetails ==
  [name |-> "onboarding_details",
   notnull |-> {"request_id", "new_starter_id", "completed_at"},
   unique |-> {"request_id"},
   fk |-> [request_id |-> "new_starter_requests", new_starter_id |-> "users"],
   defaults |-> [skills |-> EmptyList, certifications |-> EmptyList,
                 additional_info |-> EmptyMap],
   utcnow |-> {"completed_at"},
   maxlen |-> [phone_number |-> 20, address |-> 500,
               emergency_contact_name |-> 200, emergency_contact_phone |-> 20,
               previous_experience |-> 2000,
               accessibility_requirements |-> 1000,
               dietary_requirements |-> 500],
   enum |-> NoFields,
   regex |-> {},
   decimal |-> NoFields]

InductionChapter ==
  [name |-> "induction_chapters",
   notnull |-> {"project_id", "title", "order_index", "is_required",
                "is_active", "created_at"},
   unique |-> {},
   fk |-> [project_id |-> "projects"],
   defaults |-> [order_index |-> 0, is_required |-> TRUE, is_active |-> TRUE],
   utcnow |-> {"created_at"},
   maxlen |-> [title |-> 200, description |-> 1000],
   enum |-> NoFields,
   regex |-> {},
   decimal |-> NoFields]

InductionSection ==
  [name |-> "induction_sections",
   notnull |-> {"chapter_id", "title", "order_index", "is_active",
                "created_at"},
   unique |-> {},
   fk |-> [chapter_id |-> "induction_chapters"],
   defaults |-> [order_index |-> 0, is_active |-> TRUE],
   utcnow |-> {"created_at"},
   maxlen |-> [title |-> 200],
   enum |-> NoFields,
   regex |-> {},
   decimal |-> NoFields]

InductionContent ==
  [name |-> "induction_content",
   notnull |-> {"section_id", "content_type", "order_index", "is_active",
                "created_at"},
   unique |-> {},
   fk |-> [section_id |-> "induction_sections"],
   defaults |-> [content_metadata |-> EmptyMap, order_index |-> 0,
                 is_active |-> TRUE],
   utcnow |-> {"created_at"},
   maxlen |-> [title |-> 200, content |-> 10000, url |-> 500,
               file_path |-> 500, embed_code |-> 2000],
   enum |-> [content_type |-> ContentType],
   regex |-> {},
   decimal |-> NoFields]

InductionProgress ==
  [name |-> "induction_progress",
   notnull |-> {"user_id", "chapter_id", "status", "completion_percentage"},
   unique |-> {},
   fk |-> [user_id |-> "users", chapter_id |-> "induction_chapters"],
   defaults |-> [status |-> InductionStatus.NOT_STARTED,
                 completion_percentage |-> DecimalZero],
   utcnow |-> {},
   maxlen |-> [notes |-> 1000],
   enum |-> [status |-> InductionStatus],
   regex |-> {},
   decimal |-> [completion_percentage |->
                  [max_digits |-> 5, decimal_places |-> 2]]]

Dashboard ==
  [name |-> "dashboards",
   notnull |-> {"project_id", "name", "type", "is_active", "created_at"},
   unique |-> {},
   fk |-> [project_id |-> "projects"],
   defaults |-> [configuration |-> EmptyMap, required_roles |-> EmptyList,
                 is_active |-> TRUE],
   utcnow |-> {"created_at"},
   maxlen |-> [name |-> 200, type |-> 50],
   enum |-> NoFields,
   regex |-> {},
   decimal |-> NoFields]

TableNames ==
  {"users", "projects", "project_memberships", "tools", "project_tools",
   "new_starter_requests", "onboarding_details", "induction_chapters",
   "induction_sections", "induction_content", "induction_progress",
   "dashboards"}

TableOf(name) ==
  CASE name = "users" -> User
    [] name = "projects" -> Project
    [] name = "project_memberships" -> ProjectMembership
    [] name = "tools" -> Tool
    [] name = "project_tools" -> ProjectTool
    [] name = "new_starter_requests" -> NewStarterRequest
    [] name = "onboarding_details" -> OnboardingDetails
    [] name = "induction_chapters" -> InductionChapter
    [] name = "induction_sections" -> InductionSection
    [] name = "induction_content" -> InductionContent
    [] name = "induction_progress" -> InductionProgress
    [] name = "dashboards" -> Dashboard

-----------------------------------------------------------------------------
(* The create and update shapes, models.py 278-381 (table=False: these     *)
(* validate).  For each: the fields it declares, the required ones (no     *)
(* default), the defaults that are not None, and the declared constraints. *)

UserCreate ==
  [fields |-> {"email", "first_name", "last_name"},
   required |-> {"email", "first_name", "last_name"},
   defaults |-> NoFields,
   maxlen |-> [email |-> 255, first_name |-> 100, last_name |-> 100],
   enum |-> NoFields, regex |-> {}, decimal |-> NoFields]

\* Mutant: the update shape also carries the email.
UserUpdateWithEmail ==
  [fields |-> {"first_name", "last_name", "is_active", "email"},
   required |-> {},
   defaults |-> NoFields,
   maxlen |-> [first_name |-> 100, last_name |-> 100, email |-> 255],
   enum |-> NoFields, regex |-> {}, decimal |-> NoFields]

UserUpdate ==
  [fields |-> {"first_name", "last_name", "is_active"},
   required |-> {},
   defaults |-> NoFields,
   maxlen |-> [first_name |-> 100, last_name |-> 100],
   enum |-> NoFields, regex |-> {}, decimal |-> NoFields]

ProjectCreate ==
  [fields |-> {"name", "description", "code", "start_date", "end_date"},
   required |-> {"name", "code"},
   defaults |-> [description |-> EmptyStr],
   maxlen |-> [name |-> 200, description |-> 2000, code |-> 20],
   enum |-> NoFields, regex |-> {}, decimal |-> NoFields]

ProjectUpdate ==
  [fields |-> {"name", "description", "start_date", "end_date", "is_active",
               "settings"},
   required |-> {},
   defaults |-> NoFields,
   maxlen |-> [name |-> 200, description |-> 2000],
   enum |-> NoFields, regex |-> {}, decimal |-> NoFields]

ProjectMembershipCreate ==
  [fields |-> {"user_id", "project_id", "role"},
   required |-> {"user_id", "project_id"},
   defaults |-> [role |-> UserRole.TEAM_MEMBER],
   maxlen |-> NoFields,
   enum |-> [role |-> UserRole], regex |-> {}, decimal |-> NoFields]

ToolCreate ==
  [fields |-> {"name", "description", "category", "icon_url", "external_url",
               "is_embeddable", "embed_config"},
   required |-> {"name", "category"},
   defaults |-> [description |-> EmptyStr, is_embeddable |-> FALSE,
                 embed_config |-> EmptyMap],
   maxlen |-> [name |-> 200, description |-> 1000, icon_url |-> 500,
               external_url |-> 500],
   enum |-> [category |-> ToolCategory], regex |-> {}, decimal |-> NoFields]

NewStarterRequestCreate ==
  [fields |-> {"project_id", "starter_email", "starter_first_name",
               "starter_last_name", "start_date", "role", "department",
               "position", "line_manager", "notes"},
   required |-> {"project_id", "starter_email", "starter_first_name",
                 "starter_last_name", "start_date"},
   defaults |-> [role |-> UserRole.TEAM_MEMBER],
   maxlen |-> [starter_email |-> 255, starter_first_name |-> 100,
               starter_last_name |-> 100, department |-> 100,
               position |-> 100, line_manager |-> 200, notes |-> 1000],
   enum |-> [role |-> UserRole], regex |-> {}, decimal |-> NoFields]

OnboardingDetailsCreate ==
  [fields |-> {"request_id", "phone_number", "address",
               "emergency_contact_name", "emergency_contact_phone",
               "previous_experience", "skills", "certifications",
               "accessibility_requirements", "dietary_requirements",
               "additional_info"},
   required |-> {"request_id"},
   defaults |-> [skills |-> EmptyList, certifications |-> EmptyList,
                 additional_info |-> EmptyMap],
   maxlen |-> [phone_number |-> 20, address |-> 500,
               emergency_contact_name |-> 200, emergency_contact_phone |-> 20,
               previous_experience |-> 2000,
               accessibility_requirements |-> 1000,
               dietary_requirements |-> 500],
   enum |-> NoFields, regex |-> {}, decimal |-> NoFields]

InductionChapterCreate ==
  [fields |-> {"project_id", "title", "description", "order_index",
               "is_required"},
   required |-> {"project_id", "title"},
   defaults |-> [order_index |-> 0, is_required |-> TRUE],
   maxlen |-> [title |-> 200, description |-> 1000],
   enum |-> NoFields, regex |-> {}, decimal |-> NoFields]

InductionSectionCreate ==
  [fields |-> {"chapter_id", "title", "order_index"},
   required |-> {"chapter_id", "title"},
   defaults |-> [order_index |-> 0],
   maxlen |-> [title |-> 200],
   enum |-> NoFields, regex |-> {}, decimal |-> NoFields]

InductionContentCreate ==
  [fields |-> {"section_id", "content_type", "title", "content", "url",
               "file_path", "embed_code", "content_metadata", "order_index"},
   required |-> {"section_id", "content_type"},
   defaults |-> [content_metadata |-> EmptyMap, order_index |-> 0],
   maxlen |-> [title |-> 200, content |-> 10000, url |-> 500,
               file_path |-> 500, embed_code |-> 2000],
   enum |-> [content_type |-> ContentType], regex |-> {},
   decimal |-> NoFields]

DashboardCreate ==
  [fields |-> {"project_id", "name", "type", "configuration",
               "required_roles"},
   required |-> {"project_id", "name", "type"},
   defaults |-> [configuration |-> EmptyMap, required_roles |-> EmptyList],
   maxlen |-> [name |-> 200, type |-> 50],
   enum |-> NoFields, regex |-> {}, decimal |-> NoFields]

-----------------------------------------------------------------------------
(* Validation of a payload against the declared field constraints.         *)

\* Mutant: a string must be shorter than the declared maximum length.
ConstraintsHoldBelowMax(c, p) ==
  /\ \A f \in DOMAIN p \cap DOMAIN c.maxlen : Len(p[f]) < c.maxlen[f]
  /\ \A f \in DOMAIN p \cap DOMAIN c.enum : p[f] \in EnumValues(c.enum[f])
  /\ \A f \in DOMAIN p \cap c.regex : EmailPatternMatches(p[f])
  /\ \A f \in DOMAIN p \cap DOMAIN c.decimal :
        DecimalValid(p[f], c.decimal[f].max_digits, c.decimal[f].decimal_places)

\* The constraints a shape or table `c` declares, on the fields `p` carries
\* (a field that is None is not validated against them).
ConstraintsHold(c, p) ==
  /\ \A f \in DOMAIN p \cap DOMAIN c.maxlen : Len(p[f]) <= c.maxlen[f]
  /\ \A f \in DOMAIN p \cap DOMAIN c.enum : p[f] \in EnumValues(c.enum[f])
  /\ \A f \in DOMAIN p \cap c.regex : EmailPatternMatches(p[f])
  /\ \A f \in DOMAIN p \cap DOMAIN c.decimal :
        DecimalValid(p[f], c.decimal[f].max_digits, c.decimal[f].decimal_places)

\* Shape(**payload) for a table=False shape: required fields present and
\* every declared constraint met.
ShapeValid(shape, p) ==
  /\ shape.required \subseteq DOMAIN p
  /\ ConstraintsHold(shape, p)

\* shape.model_dump(): the declared fields the payload carries, the declared
\* defaults for the others.
ModelDump(shape, p) ==
  [f \in (DOMAIN p \cap shape.fields) \cup DOMAIN shape.defaults |->
     IF f \in DOMAIN p THEN p[f] ELSE shape.defaults[f]]

\* Table(**data) for a table=True class: no validation; the omitted fields take
\* their defaults, the default_factory fields take the current time.
Construct(table, data, now) ==
  [f \in DOMAIN data \cup DOMAIN table.defaults \cup table.utcnow |->
     IF f \in DOMAIN data THEN data[f]
     ELSE IF f \in DOMAIN table.defaults THEN table.defaults[f]
     ELSE now]

\* Table.model_validate(data): the fields without a default are required and
\* the constraints the table's fields declare are enforced.
TableValid(table, data) ==
  /\ (table.notnull \ (DOMAIN table.defaults \cup table.utcnow)) \subseteq DOMAIN data
  /\ ConstraintsHold(table, data)

\* The two ways a caller builds a row of a table=True class.
Routes == {"init", "model_validate"}

-----------------------------------------------------------------------------
(* Column conversions: an enum column holds the member's name, a Numeric   *)
(* column holds its value at the declared scale.                           *)

EnumName(enum, v) == CHOOSE n \in DOMAIN enum : enum[n] = v

ToColumn(table, row) ==
  [f \in DOMAIN row |->
     IF f \in DOMAIN table.enum THEN EnumName(table.enum[f], row[f])
     ELSE IF f \in DOMAIN table.decimal
          THEN Quantize(row[f], table.decimal[f].decimal_places)
     ELSE row[f]]

\* Mutant: an enum column is read back as the stored member name.
FromColumnAsStored(table, row) == row

\* The row as read back from the store.
FromColumn(table, row) ==
  [f \in DOMAIN row |->
     IF f \in DOMAIN table.enum THEN table.enum[f][row[f]] ELSE row[f]]

-----------------------------------------------------------------------------
(* The store: db[t] is the sequence of the rows of table t, in insertion   *)
(* order.                                                                  *)

Rows(tname) == {db[tname][i] : i \in 1..Len(db[tname])}

Ids(tname) == {r.id : r \in Rows(tname)}

RECURSIVE SumLen(_)
SumLen(names) ==
  IF names = {} THEN 0
  ELSE LET n == CHOOSE x \in names : TRUE
       IN Len(db[n]) + SumLen(names \ {n})

TotalRows == SumLen(TableNames)

\* Mutant: every insert is given the id 1.
NextIdAlwaysFirst(tname) == 1

\* id: Optional[int] = Field(default=None, primary_key=True): assigned by the
\* store on insert, one past the largest id of the table.
NextId(tname) == Len(db[tname]) + 1

NotNullOK(table, row) == table.notnull \subseteq DOMAIN row

\* Mutant: the email column is left out of the unique check.
UniqueOKButEmail(table, row) ==
  \A f \in (table.unique \cap DOMAIN row) \ {"email"} :
     \A r \in Rows(table.name) :
        (r.id # row.id /\ f \in DOMAIN r) => r[f] # row[f]

\* Mutant: onboarding details are unique per request and new starter.
UniqueOKPerStarter(table, row) ==
  \A f \in table.unique \cap DOMAIN row :
     \A r \in Rows(table.name) :
        (/\ r.id # row.id
         /\ f \in DOMAIN r
         /\ "new_starter_id" \in DOMAIN row => r.new_starter_id = row.new_starter_id)
           => r[f] # row[f]

\* unique=True: no other row of the table holds the same value.
UniqueOK(table, row) ==
  \A f \in table.unique \cap DOMAIN row :
     \A r \in Rows(table.name) :
        (r.id # row.id /\ f \in DOMAIN r) => r[f] # row[f]

\* Mutant: the chapter of an InductionProgress row is not checked.
ForeignKeysOKButChapter(table, row) ==
  \A f \in (DOMAIN table.fk \cap DOMAIN row) \ {"chapter_id"} :
     row[f] \in Ids(table.fk[f])

\* foreign_key="<table>.id": the referenced row exists.
ForeignKeysOK(table, row) ==
  \A f \in DOMAIN table.fk \cap DOMAIN row : row[f] \in Ids(table.fk[f])

\* The store's answer to writing `row` (an insert or an update).
StoreError(table, row) ==
  IF ~NotNullOK(table, row) THEN "IntegrityError"
  ELSE IF ~UniqueOK(table, row) THEN "ConflictError"
  ELSE IF ~ForeignKeysOK(table, row) THEN "ReferenceError"
  ELSE "none"

-----------------------------------------------------------------------------
(* Operations.  `last` records the latest call: what was asked and how it  *)
(* ended ("none", or the error raised).                                    *)

Init ==
  /\ db = [t \in TableNames |-> << >>]
  /\ clock = 1
  /\ last = [op |-> "start", error |-> "none"]

\* Build a row of table `tname` from `data` and add it to the store.
\* `shapeOk`: the create shape accepted the payload.  Nothing is written
\* unless validation and every constraint of the store pass.
Submit(tname, shapeOk, data, route, req) ==
  LET table == TableOf(tname)
      valid == shapeOk /\ (route = "model_validate" => TableValid(table, data))
      row == ToColumn(table, [id |-> NextId(tname)] @@ Construct(table, data, clock))
      err == IF ~valid THEN "ValidationError" ELSE StoreError(table, row)
  IN /\ db' = IF err = "none" THEN [db EXCEPT ![tname] = Append(@, row)] ELSE db
     /\ clock' = IF err = "none" THEN clock + 1 ELSE clock
     /\ last' = [op |-> "create", table |-> tname, payload |-> req.payload,
                 server |-> req.server, route |-> route, error |-> err,
                 id |-> IF err = "none" THEN row.id ELSE 0]

Request(payload, server) == [payload |-> payload, server |-> server]

CreateUser(p, route, cap) ==
  /\ TotalRows < cap
  /\ Submit("users", ShapeValid(UserCreate, p), ModelDump(UserCreate, p), route,
            Request(p, NoFields))

\* created_by_id is no field of ProjectCreate: the caller supplies it.
CreateProject(p, actor, route, cap) ==
  /\ TotalRows < cap
  /\ Submit("projects", ShapeValid(ProjectCreate, p),
            ModelDump(ProjectCreate, p) @@ [created_by_id |-> actor], route,
            Request(p, [created_by_id |-> actor]))

CreateProjectMembership(p, route, cap) ==
  /\ TotalRows < cap
  /\ Submit("project_memberships", ShapeValid(ProjectMembershipCreate, p),
            ModelDump(ProjectMembershipCreate, p), route, Request(p, NoFields))

CreateTool(p, route, cap) ==
  /\ TotalRows < cap
  /\ Submit("tools", ShapeValid(ToolCreate, p), ModelDump(ToolCreate, p), route,
            Request(p, NoFields))

\* ProjectTool has no create shape: the payload goes to the table class.
CreateProjectTool(p, route, cap) ==
  /\ TotalRows < cap
  /\ Submit("project_tools", TRUE, p, route, Request(p, NoFields))

\* manager_id is no field of NewStarterRequestCreate: the caller supplies it.
CreateNewStarterRequest(p, manager, route, cap) ==
  /\ TotalRows < cap
  /\ Submit("new_starter_requests", ShapeValid(NewStarterRequestCreate, p),
            ModelDump(NewStarterRequestCreate, p) @@ [manager_id |-> manager],
            route, Request(p, [manager_id |-> manager]))

\* new_starter_id is no field of OnboardingDetailsCreate: the caller supplies it.
CreateOnboardingDetails(p, starter, route, cap) ==
  /\ TotalRows < cap
  /\ Submit("onboarding_details", ShapeValid(OnboardingDetailsCreate, p),
            ModelDump(OnboardingDetailsCreate, p) @@ [new_starter_id |-> starter],
            route, Request(p, [new_starter_id |-> starter]))

CreateInductionChapter(p, route, cap) ==
  /\ TotalRows < cap
  /\ Submit("induction_chapters", ShapeValid(InductionChapterCreate, p),
            ModelDump(InductionChapterCreate, p), route, Request(p, NoFields))

CreateInductionSection(p, route, cap) ==
  /\ TotalRows < cap
  /\ Submit("induction_sections", ShapeValid(InductionSectionCreate, p),
            ModelDump(InductionSectionCreate, p), route, Request(p, NoFields))

CreateInductionContent(p, route, cap) ==
  /\ TotalRows < cap
  /\ Submit("induction_content", ShapeValid(InductionContentCreate, p),
            ModelDump(InductionContentCreate, p), route, Request(p, NoFields))

\* InductionProgress has no create shape: the payload goes to the table class.
CreateInductionProgress(p, route, cap) ==
  /\ TotalRows < cap
  /\ Submit("induction_progress", TRUE, p, route, Request(p, NoFields))

CreateDashboard(p, route, cap) ==
  /\ TotalRows < cap
  /\ Submit("dashboards", ShapeValid(DashboardCreate, p),
            ModelDump(DashboardCreate, p), route, Request(p, NoFields))

RowById(tname, id) == CHOOSE r \in Rows(tname) : r.id = id

\* Partial update: the fields of the shape that the payload carries overwrite
\* the row (`nulls`: the fields it carries as null); the others stay.
Apply(row, shape, p, nulls) ==
  [f \in (DOMAIN row \cup (DOMAIN p \cap shape.fields)) \ (nulls \cap shape.fields) |->
     IF f \in DOMAIN p \cap shape.fields THEN p[f] ELSE row[f]]

\* Write `new` over the row `id` of table `tname`.
Overwrite(tname, id, valid, new, op, p, nulls) ==
  LET table == TableOf(tname)
      err == IF ~valid THEN "ValidationError" ELSE StoreError(table, new)
  IN /\ id \in Ids(tname)
     /\ db' = IF err = "none" THEN [db EXCEPT ![tname][id] = new] ELSE db
     /\ clock' = clock
     /\ last' = [op |-> op, table |-> tname, id |-> id, payload |-> p,
                 nulls |-> nulls, error |-> err]

UpdateUser(id, p, nulls) ==
  /\ id \in Ids("users")
  /\ Overwrite("users", id, ConstraintsHold(UserUpdate, p),
               Apply(RowById("users", id), UserUpdate, p, nulls),
               "update", p, nulls)

UpdateProject(id, p, nulls) ==
  /\ id \in Ids("projects")
  /\ Overwrite("projects", id, ConstraintsHold(ProjectUpdate, p),
               Apply(RowById("projects", id), ProjectUpdate, p, nulls),
               "update", p, nulls)

\* The tables with an is_active flag and no update shape.
FlagOnlyTables ==
  {"project_memberships", "tools", "induction_chapters", "induction_sections",
   "induction_content", "dashboards"}

\* Mutant: deactivation flips the flag, so a second one reactivates the row.
DeactivatedToggled(row) == [row EXCEPT !.is_active = ~@]

\* Soft deactivation: the row stays, its is_active flag is cleared.
Deactivated(row) == [row EXCEPT !.is_active = FALSE]

Deactivate(tname, id) ==
  /\ id \in Ids(tname)
  /\ Overwrite(tname, id, TRUE, Deactivated(RowById(tname, id)),
               "deactivate", NoFields, {})

-----------------------------------------------------------------------------
(* Inputs.  A menu gives, per field, the values a payload may carry; a     *)
(* payload carries the `must` fields and any of the others.                *)

Str(ch, n) == [i \in 1..n |-> ch]

RECURSIVE Fill(_, _)
Fill(keys, menu) ==
  IF keys = {} THEN {NoFields}
  ELSE LET k == CHOOSE x \in keys : TRUE
       IN {[x \in {k} |-> v] @@ r : v \in menu[k], r \in Fill(keys \ {k}, menu)}

Payloads(menu, must) ==
  UNION {Fill(K, menu) : K \in {K \in SUBSET DOMAIN menu : must \subseteq K}}

\* Ids a payload may name: id 2 is the id of no row until its table holds
\* two rows.
IdInputs == {1, 2}

-----------------------------------------------------------------------------
(* Accounts: users and projects are created; updates try to move a row's   *)
(* email or code onto a value another row may hold.                        *)

MaxAccountRows == 3

EmailAlice == <<"a", "@", "x", ".", "i", "o">>
EmailBob == <<"B", "_", "1", "@", "x", "-", "y", ".", "c", "o", ".", "u", "k">>
EmailNoAt == <<"a", ".", "x", ".", "i", "o">>
EmailNoDot == <<"a", "@", "x">>
EmailSpace == <<"a", " ", "b", "@", "x", ".", "i", "o">>

AccountUserMenu ==
  [email |-> {EmailAlice, EmailBob, EmailNoAt, EmailNoDot, EmailSpace},
   first_name |-> {Str("f", 1)},
   last_name |-> {Str("l", 1)}]

AccountProjectMenu ==
  [name |-> {Str("n", 1)},
   code |-> {Str("P", 1), Str("Q", 1)}]

NextAccounts ==
  \/ \E p \in Payloads(AccountUserMenu, {"first_name", "last_name"}), route \in Routes :
        CreateUser(p, route, MaxAccountRows)
  \/ \E p \in Payloads(AccountProjectMenu, {"name"}), actor \in IdInputs :
        CreateProject(p, actor, "init", MaxAccountRows)
  \/ \E id \in IdInputs, p \in Payloads([email |-> {EmailAlice, EmailBob}], {}) :
        UpdateUser(id, p, {})
  \/ \E id \in IdInputs, p \in Payloads([code |-> {Str("P", 1), Str("Q", 1)}], {}) :
        UpdateProject(id, p, {})

SpecAccounts == Init /\ [][NextAccounts]_vars

-----------------------------------------------------------------------------
(* The whole store: every table is written, each foreign key drawn from a  *)
(* set of ids.                                                             *)

MaxRows == 5

Title == Str("t", 1)

UserMenu(emails) ==
  [email |-> emails, first_name |-> {Str("f", 1)},
   last_name |-> {Str("l", 1)}]

ProjectMenu == [name |-> {Title}, code |-> {Str("P", 1)}]

ProjectMembershipMenu(ids) ==
  [user_id |-> ids, project_id |-> ids, role |-> {"viewer"}]

ToolMenu == [name |-> {Title}, category |-> {"app"}]

ProjectToolMenu(ids) == [project_id |-> ids, tool_id |-> ids]

NewStarterRequestMenu(ids) ==
  [project_id |-> ids, starter_email |-> {EmailBob},
   starter_first_name |-> {Str("f", 1)}, starter_last_name |-> {Str("l", 1)},
   start_date |-> {7}]

OnboardingDetailsMenu(ids) == [request_id |-> ids]

InductionChapterMenu(ids) == [project_id |-> ids, title |-> {Title}]

InductionSectionMenu(ids) == [chapter_id |-> ids, title |-> {Title}]

InductionContentMenu(ids) == [section_id |-> ids, content_type |-> {"text"}]

InductionProgressMenu(ids) == [user_id |-> ids, chapter_id |-> ids]

DashboardMenu(ids) ==
  [project_id |-> ids, name |-> {Title}, type |-> {Str("d", 1)}]

\* A create of any of the twelve tables, its foreign keys drawn from `ids`.
CreateAny(emails, ids, cap) ==
  \/ \E p \in Payloads(UserMenu(emails), UserCreate.required) :
        CreateUser(p, "init", cap)
  \/ \E p \in Payloads(ProjectMenu, ProjectCreate.required), actor \in ids :
        CreateProject(p, actor, "init", cap)
  \/ \E p \in Payloads(ProjectMembershipMenu(ids), {"user_id", "project_id"}) :
        CreateProjectMembership(p, "init", cap)
  \/ \E p \in Payloads(ToolMenu, ToolCreate.required) :
        CreateTool(p, "init", cap)
  \/ \E p \in Payloads(ProjectToolMenu(ids), {"project_id", "tool_id"}) :
        CreateProjectTool(p, "init", cap)
  \/ \E p \in Payloads(NewStarterRequestMenu(ids),
                       NewStarterRequestCreate.required),
        manager \in ids :
        CreateNewStarterRequest(p, manager, "init", cap)
  \/ \E p \in Payloads(OnboardingDetailsMenu(ids), {"request_id"}),
        starter \in ids :
        CreateOnboardingDetails(p, starter, "init", cap)
  \/ \E p \in Payloads(InductionChapterMenu(ids), {"project_id", "title"}) :
        CreateInductionChapter(p, "init", cap)
  \/ \E p \in Payloads(InductionSectionMenu(ids), {"chapter_id", "title"}) :
        CreateInductionSection(p, "init", cap)
  \/ \E p \in Payloads(InductionContentMenu(ids), {"section_id", "content_type"}) :
        CreateInductionContent(p, "init", cap)
  \/ \E p \in Payloads(InductionProgressMenu(ids), {"user_id", "chapter_id"}) :
        CreateInductionProgress(p, "init", cap)
  \/ \E p \in Payloads(DashboardMenu(ids), {"project_id", "name", "type"}) :
        CreateDashboard(p, "init", cap)

Next == CreateAny({EmailAlice, EmailBob}, IdInputs, MaxRows)

Spec == Init /\ [][Next]_vars

-----------------------------------------------------------------------------
(* Lifecycle: rows are created, then deactivated.                          *)

MaxLifeRows == 5

NextLifecycle ==
  \/ CreateAny({EmailAlice}, {1}, MaxLifeRows)
  \/ \E id \in IdInputs : UpdateUser(id, [is_active |-> FALSE], {})
  \/ \E id \in IdInputs : UpdateProject(id, [is_active |-> FALSE], {})
  \/ \E tname \in FlagOnlyTables, id \in IdInputs : Deactivate(tname, id)

SpecLifecycle == Init /\ [][NextLifecycle]_vars

-----------------------------------------------------------------------------
(* Properties of the whole store.                                          *)

\* The latest call was a create of table `t`.
LastCreate(t) == last.op = "create" /\ last.table = t

\* What the latest create asked to store: the payload and the fields the
\* caller supplied.
LastData == last.payload @@ last.server

\* The foreign keys the data model states, per table: column -> target table.
StatedForeignKeys(t) ==
  CASE t = "users" -> NoFields
    [] t = "projects" -> [created_by_id |-> "users"]
    [] t = "project_memberships" ->
         [user_id |-> "users", project_id |-> "projects"]
    [] t = "tools" -> NoFields
    [] t = "project_tools" -> [project_id |-> "projects", tool_id |-> "tools"]
    [] t = "new_starter_requests" ->
         [project_id |-> "projects", manager_id |-> "users"]
    [] t = "onboarding_details" ->
         [request_id |-> "new_starter_requests", new_starter_id |-> "users"]
    [] t = "induction_chapters" -> [project_id |-> "projects"]
    [] t = "induction_sections" -> [chapter_id |-> "induction_chapters"]
    [] t = "induction_content" -> [section_id |-> "induction_sections"]
    [] t = "induction_progress" ->
         [user_id |-> "users", chapter_id |-> "induction_chapters"]
    [] t = "dashboards" -> [project_id |-> "projects"]

\* The unique columns the data model states, per table.
StatedUnique(t) ==
  CASE t = "users" -> {"email"}
    [] t = "projects" -> {"code"}
    [] t = "onboarding_details" -> {"request_id"}
    [] OTHER -> {}

\* Some foreign key of `data` names an id that no row of its target has.
Dangling(t, data) ==
  \E f \in DOMAIN StatedForeignKeys(t) \cap DOMAIN data :
     data[f] \notin Ids(StatedForeignKeys(t)[f])

\* Some unique column of `data` holds a value a row of the table holds.
Collides(t, data) ==
  \E f \in StatedUnique(t) \cap DOMAIN data :
     \E r \in Rows(t) : f \in DOMAIN r /\ r[f] = data[f]

EveryForeignKeyResolves ==
  \A t \in TableNames : \A r \in Rows(t) :
     \A f \in DOMAIN StatedForeignKeys(t) :
        f \in DOMAIN r /\ r[f] \in Ids(StatedForeignKeys(t)[f])

\* A create that names a dangling foreign key: it fails; the error is
\* ReferenceError when the payload validated and collides with no unique
\* value (validation and uniqueness are reported first).
DanglingCreateFails ==
  (last'.op = "create" /\ Dangling(last'.table, last'.payload @@ last'.server)) =>
     /\ last'.error # "none"
     /\ db' = db
     /\ (last'.error # "ValidationError"
         /\ ~Collides(last'.table, last'.payload @@ last'.server)) =>
            last'.error = "ReferenceError"

(* C3: in every reachable state every foreign-key field of every persisted *)
(* row refers to an existing row of its target table, and a create whose   *)
(* foreign key names a non-existent id fails with ReferenceError and       *)
(* persists nothing.                                                       *)
C3_ForeignKeysResolve ==
  /\ []EveryForeignKeyResolves
  /\ [][DanglingCreateFails]_vars

\* A create was refused with ReferenceError while a row that carries two
\* foreign keys is in the store.
C3_Witness ==
  /\ LastCreate("induction_progress")
  /\ last.error = "ReferenceError"
  /\ Dangling("induction_progress", LastData)
  /\ db["onboarding_details"] # << >>

-----------------------------------------------------------------------------
\* The defaults the data model states, per table, as read back from the
\* store.
StatedDefaults(t) ==
  CASE t = "users" -> [is_active |-> TRUE]
    [] t = "projects" ->
         [description |-> EmptyStr, is_active |-> TRUE, settings |-> EmptyMap]
    [] t = "project_memberships" ->
         [role |-> "team_member", is_active |-> TRUE]
    [] t = "tools" ->
         [description |-> EmptyStr, is_embeddable |-> FALSE,
          embed_config |-> EmptyMap, is_active |-> TRUE]
    [] t = "project_tools" ->
         [is_enabled |-> TRUE, configuration |-> EmptyMap,
          required_roles |-> EmptyList]
    [] t = "new_starter_requests" ->
         [role |-> "team_member", status |-> "pending"]
    [] t = "onboarding_details" ->
         [skills |-> EmptyList, certifications |-> EmptyList,
          additional_info |-> EmptyMap]
    [] t = "induction_chapters" ->
         [order_index |-> 0, is_required |-> TRUE, is_active |-> TRUE]
    [] t = "induction_sections" -> [order_index |-> 0, is_active |-> TRUE]
    [] t = "induction_content" ->
         [content_metadata |-> EmptyMap, order_index |-> 0,
          is_active |-> TRUE]
    [] t = "induction_progress" ->
         [status |-> "not_started",
          completion_percentage |-> [coef |-> 0, scale |-> 2]]
    [] t = "dashboards" ->
         [configuration |-> EmptyMap, required_roles |-> EmptyList,
          is_active |-> TRUE]

\* The fields a create must be given: the NOT NULL columns without a default.
RequiredToCreate(t) ==
  TableOf(t).notnull \ (DOMAIN TableOf(t).defaults \cup TableOf(t).utcnow)

\* The row the step added to table `t`, as read back.
AddedRow(t) == FromColumn(TableOf(t), db'[t][Len(db'[t])])

\* A create that populates every required field with valid values, names
\* existing rows and collides with no unique value: it adds one row, whose id
\* no row of the table had and whose omitted fields hold the stated defaults.
CreateAssignsIdAndDefaults ==
  LET t == last'.table
      data == last'.payload @@ last'.server
  IN (/\ last'.op = "create"
      /\ RequiredToCreate(t) \subseteq DOMAIN data
      /\ ConstraintsHold(TableOf(t), data)
      /\ ~Dangling(t, data)
      /\ ~Collides(t, data)) =>
        /\ last'.error = "none"
        /\ Len(db'[t]) = Len(db[t]) + 1
        /\ \A i \in 1..Len(db[t]) : db'[t][i] = db[t][i]
        /\ AddedRow(t).id = last'.id
        /\ AddedRow(t).id \notin Ids(t)
        /\ \A f \in DOMAIN StatedDefaults(t) \ DOMAIN data :
              f \in DOMAIN AddedRow(t) /\ AddedRow(t)[f] = StatedDefaults(t)[f]
        /\ \A f \in DOMAIN data : AddedRow(t)[f] = data[f]

(* C7: for every entity, a create payload that populates every required    *)
(* field with valid values produces a persisted row whose id differs from  *)
(* the id of every row of that entity already in the store and whose       *)
(* omitted fields hold their declared defaults.                            *)
C7_CreateAssignsIdAndDefaults == [][CreateAssignsIdAndDefaults]_vars

\* A second NewStarterRequest was stored with the id 2, role and status
\* omitted from its payload.
C7_Witness ==
  /\ LastCreate("new_starter_requests")
  /\ last.error = "none"
  /\ last.id = 2
  /\ "role" \notin DOMAIN last.payload
  /\ Len(db["new_starter_requests"]) = 2
  /\ db["new_starter_requests"][2].status = "PENDING"

-----------------------------------------------------------------------------
(* Properties of the lifecycle.                                            *)

\* Every row of the store is still there after the step, under the same id.
RowsPersist ==
  \A t \in TableNames :
     /\ Len(db'[t]) >= Len(db[t])
     /\ \A i \in 1..Len(db[t]) : db'[t][i].id = db[t][i].id

\* The step deactivated a row: a deactivate call, or an update whose payload
\* is is_active = false alone.
DeactivationStep ==
  /\ last'.error = "none"
  /\ \/ last'.op = "deactivate"
     \/ last'.op = "update" /\ last'.payload = [is_active |-> FALSE]
                            /\ last'.nulls = {}

\* A deactivation changes one field of one row: is_active, to false.
DeactivationOnlyClearsFlag ==
  DeactivationStep =>
     \A t \in TableNames :
        /\ Len(db'[t]) = Len(db[t])
        /\ \A i \in 1..Len(db[t]) :
              IF t = last'.table /\ db[t][i].id = last'.id
              THEN /\ DOMAIN db'[t][i] = DOMAIN db[t][i]
                   /\ db'[t][i].is_active = FALSE
                   /\ \A f \in DOMAIN db[t][i] \ {"is_active"} :
                         db'[t][i][f] = db[t][i][f]
              ELSE db'[t][i] = db[t][i]

(* C9: no operation ever removes a persisted row: once a row exists it     *)
(* exists in every later state with the same id, and deactivation of a     *)
(* Project, ProjectMembership, Tool, InductionChapter, InductionSection,   *)
(* InductionContent or Dashboard only sets its is_active flag to false.    *)
C9_RowsAreNeverRemoved == [][RowsPersist /\ DeactivationOnlyClearsFlag]_vars

\* An InductionContent row was deactivated and is still stored, with the
\* project it hangs under deactivated as well.
C9_Witness ==
  /\ last.op = "deactivate"
  /\ last.table = "induction_content"
  /\ last.error = "none"
  /\ Len(db["induction_content"]) = 1
  /\ db["induction_content"][1].is_active = FALSE
  /\ db["induction_content"][1].content_type = "TEXT"
  /\ db["projects"][1].is_active = FALSE

-----------------------------------------------------------------------------
(* Properties of the accounts.                                             *)

\* No two rows of table `t` hold the same value in column `f`.
NoTwoRowsShare(t, f) ==
  \A i, j \in 1..Len(db[t]) : i # j => db[t][i][f] # db[t][j][f]

EmailsAndCodesAreUnique ==
  /\ NoTwoRowsShare("users", "email")
  /\ NoTwoRowsShare("projects", "code")

\* A create whose email or code another row holds: it fails and writes
\* nothing; the error is ConflictError once the payload has validated.
CollidingCreateFails ==
  (last'.op = "create" /\ Collides(last'.table, last'.payload @@ last'.server)) =>
     /\ last'.error # "none"
     /\ db' = db
     /\ last'.error # "ValidationError" => last'.error = "ConflictError"

\* An update leaves every email and every code as it was.
UpdateKeepsEmailAndCode ==
  last'.op = "update" =>
     /\ \A i \in 1..Len(db["users"]) :
           db'["users"][i].email = db["users"][i].email
     /\ \A i \in 1..Len(db["projects"]) :
           db'["projects"][i].code = db["projects"][i].code

(* C1: after any sequence of create and update operations on User and      *)
(* Project rows, no two User rows have the same email and no two Project   *)
(* rows have the same code: a create (or update) that would give a second  *)
(* row an email/code already held by another row fails with ConflictError  *)
(* and leaves the store unchanged.                                         *)
C1_EmailAndCodeStayUnique ==
  /\ []EmailsAndCodesAreUnique
  /\ [][CollidingCreateFails /\ UpdateKeepsEmailAndCode]_vars

\* Two users are stored and a third create, with the email of one of them,
\* was refused with ConflictError.
C1_Witness ==
  /\ LastCreate("users")
  /\ last.error = "ConflictError"
  /\ Len(db["users"]) = 2
  /\ \E r \in Rows("users") : r.email = last.payload.email

(* C5: creating a User through the create shape with an email that does    *)
(* not match the email-shape pattern fails with ValidationError before any *)
(* persistence attempt, so no User row with a non-matching email is ever   *)
(* persisted.                                                              *)
C5_NonMatchingEmailIsRejected ==
  /\ (LastCreate("users") /\ "email" \in DOMAIN last.payload
        /\ ~EmailPatternMatches(last.payload.email)) =>
        last.error = "ValidationError"
  /\ \A r \in Rows("users") : EmailPatternMatches(r.email)

-----------------------------------------------------------------------------
(* Updates: a user and a project are created, then updated with payloads   *)
(* that carry any part of the update shape, and an email or a code.        *)

MaxUpdateRows == 2

UserUpdateMenu ==
  [first_name |-> {Str("g", 2)}, last_name |-> {Str("m", 2)},
   is_active |-> {FALSE}, email |-> {EmailBob}]

ProjectUpdateMenu ==
  [start_date |-> {3}, is_active |-> {FALSE}, code |-> {Str("Q", 1)}]

NextUpdates ==
  \/ \E p \in Payloads(UserMenu({EmailAlice, EmailBob}), UserCreate.required) :
        CreateUser(p, "init", MaxUpdateRows)
  \/ \E p \in Payloads(ProjectMenu, ProjectCreate.required), actor \in IdInputs :
        CreateProject(p, actor, "init", MaxUpdateRows)
  \/ \E id \in IdInputs, p \in Payloads(UserUpdateMenu, {}) :
        \E nulls \in SUBSET ({"last_name"} \ DOMAIN p) :
           UpdateUser(id, p, nulls)
  \/ \E id \in IdInputs, p \in Payloads(ProjectUpdateMenu, {}) :
        \E nulls \in SUBSET ({"start_date"} \ DOMAIN p) :
           UpdateProject(id, p, nulls)

SpecUpdates == Init /\ [][NextUpdates]_vars

\* The fields the update shapes are stated to carry.
StatedUpdateFields(t) ==
  IF t = "users" THEN {"first_name", "last_name", "is_active"}
  ELSE {"name", "description", "start_date", "end_date", "is_active",
        "settings"}

\* A successful update: in the row it names, a field of the update shape that
\* the payload carries holds the payload's value (none, if carried as null),
\* every other field holds what it held; every other row is as it was.
UpdateOverwritesPresentFieldsOnly ==
  (last'.op = "update" /\ last'.error = "none") =>
     LET t == last'.table
         carried == DOMAIN last'.payload \cap StatedUpdateFields(t)
         nulled == last'.nulls \cap StatedUpdateFields(t)
     IN \A u \in TableNames :
           /\ Len(db'[u]) = Len(db[u])
           /\ \A i \in 1..Len(db[u]) :
                 IF u = t /\ db[u][i].id = last'.id
                 THEN \A f \in DOMAIN db[u][i] \cup DOMAIN db'[u][i] \cup carried :
                         IF f \in carried
                         THEN f \in DOMAIN db'[u][i]
                              /\ db'[u][i][f] = last'.payload[f]
                         ELSE IF f \in nulled
                         THEN f \notin DOMAIN db'[u][i]
                         ELSE /\ f \in DOMAIN db[u][i]
                              /\ f \in DOMAIN db'[u][i]
                              /\ db'[u][i][f] = db[u][i][f]
                 ELSE db'[u][i] = db[u][i]

\* An update that is refused writes nothing.
FailedUpdateWritesNothing ==
  (last'.op = "update" /\ last'.error # "none") => db' = db

(* C4: applying a UserUpdate or ProjectUpdate payload to an existing row   *)
(* overwrites exactly the fields explicitly present in the payload and     *)
(* leaves every other stored field unchanged; a UserUpdate containing only *)
(* is_active=false changes is_active and leaves first_name, last_name and  *)
(* email (and id, created_at) untouched, and no update can change          *)
(* User.email or Project.code.                                             *)
C4_UpdateOverwritesPresentFieldsOnly ==
  [][UpdateOverwritesPresentFieldsOnly /\ FailedUpdateWritesNothing
     /\ UpdateKeepsEmailAndCode]_vars

\* A user whose first name an earlier update changed was updated with
\* is_active = false alone.
C4_Witness ==
  /\ last.op = "update"
  /\ last.table = "users"
  /\ last.error = "none"
  /\ last.payload = [is_active |-> FALSE]
  /\ last.nulls = {}
  /\ db["users"][last.id].is_active = FALSE
  /\ db["users"][last.id].first_name = Str("g", 2)
  /\ db["users"][last.id].last_name = Str("l", 1)
  /\ db["users"][last.id].email = EmailAlice

-----------------------------------------------------------------------------
(* Onboarding: requests are raised and their details filed.                *)

MaxOnboardingRows == 6

NextOnboarding ==
  \/ \E p \in Payloads(UserMenu({EmailAlice, EmailBob}), UserCreate.required) :
        CreateUser(p, "init", MaxOnboardingRows)
  \/ \E p \in Payloads(ProjectMenu, ProjectCreate.required) :
        CreateProject(p, 1, "init", MaxOnboardingRows)
  \/ \E p \in Payloads(NewStarterRequestMenu({1}),
                       NewStarterRequestCreate.required) :
        CreateNewStarterRequest(p, 1, "init", MaxOnboardingRows)
  \/ \E p \in Payloads(OnboardingDetailsMenu(1..3), {"request_id"}),
        starter \in 1..3 :
        CreateOnboardingDetails(p, starter, "init", MaxOnboardingRows)

SpecOnboarding == Init /\ [][NextOnboarding]_vars

OneDetailsPerRequest == NoTwoRowsShare("onboarding_details", "request_id")

\* A create of OnboardingDetails for a request that has one: ConflictError,
\* nothing written.
SecondDetailsIsRefused ==
  (/\ last'.op = "create"
   /\ last'.table = "onboarding_details"
   /\ \E r \in Rows("onboarding_details") :
         r.request_id = last'.payload.request_id) =>
     /\ last'.error = "ConflictError"
     /\ db' = db

(* C2: in every reachable state each NewStarterRequest has at most one     *)
(* OnboardingDetails row: creating a second OnboardingDetails for a        *)
(* request_id that already has one fails with ConflictError, whatever      *)
(* new_starter_id it carries.                                              *)
C2_OneDetailsPerRequest ==
  /\ []OneDetailsPerRequest
  /\ [][SecondDetailsIsRefused]_vars

\* The details of request 1 are filed for one user, and a second filing for
\* request 1, for another stored user, was refused with ConflictError.
C2_Witness ==
  /\ LastCreate("onboarding_details")
  /\ last.error = "ConflictError"
  /\ last.payload.request_id = 1
  /\ last.server.new_starter_id \in Ids("users")
  /\ \E r \in Rows("onboarding_details") :
        /\ r.request_id = 1
        /\ r.new_starter_id # last.server.new_starter_id

-----------------------------------------------------------------------------
(* Memberships: users join a project under a role given as a string.       *)

MaxMembershipRows == 4

RoleInputs ==
  {"admin", "manager", "viewer", "external", "team_member", "not_a_role",
   "VIEWER", "owner"}

MembershipMenu == [user_id |-> IdInputs, project_id |-> {1}, role |-> RoleInputs]

NextMembership ==
  \/ \E p \in Payloads(UserMenu({EmailAlice}), UserCreate.required) :
        CreateUser(p, "init", MaxMembershipRows)
  \/ \E p \in Payloads(ProjectMenu, ProjectCreate.required) :
        CreateProject(p, 1, "init", MaxMembershipRows)
  \/ \E p \in Payloads(MembershipMenu, {"user_id", "project_id"}),
        route \in Routes :
        CreateProjectMembership(p, route, MaxMembershipRows)

SpecMembership == Init /\ [][NextMembership]_vars

StatedRoles == {"admin", "manager", "viewer", "external", "team_member"}

\* A membership create whose role is outside the stated set: ValidationError,
\* nothing written.
UnknownRoleIsRefused ==
  (/\ last'.op = "create"
   /\ last'.table = "project_memberships"
   /\ "role" \in DOMAIN last'.payload
   /\ last'.payload.role \notin StatedRoles) =>
     /\ last'.error = "ValidationError"
     /\ db' = db

\* A membership create with a stated role, for a stored user and project:
\* it succeeds and the row read back carries the role of the payload.
KnownRoleRoundTrips ==
  (/\ last'.op = "create"
   /\ last'.table = "project_memberships"
   /\ "role" \in DOMAIN last'.payload
   /\ last'.payload.role \in StatedRoles
   /\ ~Dangling("project_memberships", last'.payload)) =>
     /\ last'.error = "none"
     /\ Len(db'["project_memberships"]) = Len(db["project_memberships"]) + 1
     /\ AddedRow("project_memberships").role = last'.payload.role

(* C6: creating a ProjectMembership whose role is outside {admin, manager, *)
(* viewer, external, team_member} fails with ValidationError and persists  *)
(* nothing; creating one with a role in that set (e.g. viewer) succeeds    *)
(* and the persisted row read back carries the same role value.            *)
C6_RoleIsValidatedAndRoundTrips ==
  [][UnknownRoleIsRefused /\ KnownRoleRoundTrips]_vars

\* A membership with the role viewer was stored: the column holds the member
\* name and the row reads back as viewer.
C6_Witness ==
  /\ LastCreate("project_memberships")
  /\ last.error = "none"
  /\ "role" \in DOMAIN last.payload
  /\ last.payload.role = "viewer"
  /\ Len(db["project_memberships"]) = 1
  /\ db["project_memberships"][1].role = "VIEWER"
  /\ FromColumn(ProjectMembership, db["project_memberships"][1]).role = "viewer"

-----------------------------------------------------------------------------
(* Induction progress: a user's completion percentage of a chapter.        *)

MaxProgressRows == 5

Dec(coef, scale) == [coef |-> coef, scale |-> scale]

\* 0, 50.25, 100, 150, 50.254 and -5.
PercentageInputs ==
  {Dec(0, 0), Dec(5025, 2), Dec(100, 0), Dec(150, 0), Dec(50254, 3), Dec(-5, 0)}

ProgressMenu ==
  [user_id |-> {1}, chapter_id |-> {1}, completion_percentage |-> PercentageInputs]

NextProgress ==
  \/ \E p \in Payloads(UserMenu({EmailAlice}), UserCreate.required) :
        CreateUser(p, "init", MaxProgressRows)
  \/ \E p \in Payloads(ProjectMenu, ProjectCreate.required) :
        CreateProject(p, 1, "init", MaxProgressRows)
  \/ \E p \in Payloads(InductionChapterMenu({1}), {"project_id", "title"}) :
        CreateInductionChapter(p, "init", MaxProgressRows)
  \/ \E p \in Payloads(ProgressMenu, {"user_id", "chapter_id"}),
        route \in Routes :
        CreateInductionProgress(p, route, MaxProgressRows)

SpecProgress == Init /\ [][NextProgress]_vars

\* A column value with two decimal places between 0.00 and 100.00.
PercentageInRange(d) == d.scale = 2 /\ d.coef >= 0 /\ d.coef <= 10000

(* C8: every persisted InductionProgress.completion_percentage is a        *)
(* fixed-point number with at most two decimal places in the range 0 to    *)
(* 100.  Stated for the rows that were built with the field constraints    *)
(* enforced (InductionProgress.model_validate), where 0, 50.25 and 100 are  *)
(* accepted and 50.254 is refused.                                          *)
C8_PersistedPercentageInRange ==
  (/\ LastCreate("induction_progress")
   /\ last.error = "none"
   /\ last.route = "model_validate") =>
     PercentageInRange(db["induction_progress"][last.id].completion_percentage)

-----------------------------------------------------------------------------
(* String lengths: every create and update shape with a string field is    *)
(* given, for each such field, a value of the declared maximum length and  *)
(* a value one character longer.                                           *)

MaxLengthRows == 2

\* The shortest payload of a shape: its required fields, a one-character
\* string, a member of the enum, or the id or date 1.
Base(shape) ==
  [f \in shape.required |->
     IF f \in DOMAIN shape.maxlen THEN Str("x", 1)
     ELSE IF f \in DOMAIN shape.enum
          THEN CHOOSE v \in EnumValues(shape.enum[f]) : TRUE
     ELSE 1]

\* Base(shape) with the field f set to a string of n characters.
WithLength(shape, f, n) ==
  [g \in shape.required \cup {f} |->
     IF g = f THEN Str("x", n) ELSE Base(shape)[g]]

LengthPayloads(shape) ==
  UNION {{WithLength(shape, f, shape.maxlen[f]),
          WithLength(shape, f, shape.maxlen[f] + 1)} : f \in DOMAIN shape.maxlen}

UserCreateLengths == LengthPayloads(UserCreate)
UserUpdateLengths == LengthPayloads(UserUpdate)
ProjectCreateLengths == LengthPayloads(ProjectCreate)
ProjectUpdateLengths == LengthPayloads(ProjectUpdate)
ToolCreateLengths == LengthPayloads(ToolCreate)
NewStarterRequestCreateLengths == LengthPayloads(NewStarterRequestCreate)
OnboardingDetailsCreateLengths == LengthPayloads(OnboardingDetailsCreate)
InductionChapterCreateLengths == LengthPayloads(InductionChapterCreate)
InductionSectionCreateLengths == LengthPayloads(InductionSectionCreate)
InductionContentCreateLengths == LengthPayloads(InductionContentCreate)
DashboardCreateLengths == LengthPayloads(DashboardCreate)

NextLengths ==
  \/ \E p \in UserCreateLengths : CreateUser(p, "init", MaxLengthRows)
  \/ \E p \in ProjectCreateLengths : CreateProject(p, 1, "init", MaxLengthRows)
  \/ \E p \in ToolCreateLengths : CreateTool(p, "init", MaxLengthRows)
  \/ \E p \in NewStarterRequestCreateLengths :
        CreateNewStarterRequest(p, 1, "init", MaxLengthRows)
  \/ \E p \in OnboardingDetailsCreateLengths :
        CreateOnboardingDetails(p, 1, "init", MaxLengthRows)
  \/ \E p \in InductionChapterCreateLengths :
        CreateInductionChapter(p, "init", MaxLengthRows)
  \/ \E p \in InductionSectionCreateLengths :
        CreateInductionSection(p, "init", MaxLengthRows)
  \/ \E p \in InductionContentCreateLengths :
        CreateInductionContent(p, "init", MaxLengthRows)
  \/ \E p \in DashboardCreateLengths : CreateDashboard(p, "init", MaxLengthRows)
  \/ \E p \in UserUpdateLengths : UpdateUser(1, p, {})
  \/ \E p \in ProjectUpdateLengths : UpdateProject(1, p, {})

SpecLengths == Init /\ [][NextLengths]_vars

\* The shape a call validates its payload against.
ShapeOfCall(op, t) ==
  IF op = "update"
  THEN CASE t = "users" -> UserUpdate
         [] t = "projects" -> ProjectUpdate
  ELSE CASE t = "users" -> UserCreate
         [] t = "projects" -> ProjectCreate
         [] t = "tools" -> ToolCreate
         [] t = "new_starter_requests" -> NewStarterRequestCreate
         [] t = "onboarding_details" -> OnboardingDetailsCreate
         [] t = "induction_chapters" -> InductionChapterCreate
         [] t = "induction_sections" -> InductionSectionCreate
         [] t = "induction_content" -> InductionContentCreate
         [] t = "dashboards" -> DashboardCreate

\* The string fields of payload p whose length is the declared maximum of
\* the shape plus `over`.
FieldsAtMax(shape, p, over) ==
  {f \in DOMAIN p \cap DOMAIN shape.maxlen : Len(p[f]) = shape.maxlen[f] + over}

\* A call whose payload holds a string one character over the declared
\* maximum ends in ValidationError and writes nothing.
OverlongIsRefused ==
  FieldsAtMax(ShapeOfCall(last'.op, last'.table), last'.payload, 1) # {} =>
     /\ last'.error = "ValidationError"
     /\ db' = db

\* A call whose payload holds a string of exactly the declared maximum, the
\* rest of the payload being valid, passes validation.
MaximalIsAccepted ==
  (/\ FieldsAtMax(ShapeOfCall(last'.op, last'.table), last'.payload, 0) # {}
   /\ FieldsAtMax(ShapeOfCall(last'.op, last'.table), last'.payload, 1) = {}) =>
     last'.error # "ValidationError"

(* C10: for every string field of a create or update shape with declared   *)
(* maximum length L, a payload whose value has length exactly L validates  *)
(* and a payload whose value has length L+1 fails with ValidationError     *)
(* before any persistence attempt, leaving the store unchanged.            *)
C10_LengthLimitIsExact ==
  [][last'.op \in {"create", "update"} =>
       (OverlongIsRefused /\ MaximalIsAccepted)]_vars

\* A user whose first_name has the 100 characters UserCreate allows is
\* stored, and a create with a first_name of 101 characters was refused.
C10_Witness ==
  /\ LastCreate("users")
  /\ last.error = "ValidationError"
  /\ "first_name" \in DOMAIN last.payload
  /\ Len(last.payload.first_name) = UserCreate.maxlen.first_name + 1
  /\ \E r \in Rows("users") : Len(r.first_name) = UserCreate.maxlen.first_name

====
